---- MODULE Spec2Model ----
(***************************************************************************)
(* Model of scripts/validate_workflows.py: discovery of workflow bundles   *)
(* beneath a root directory, per-bundle validation (validate_bundle) and   *)
(* the exit status / report of main.                                       *)
(*                                                                         *)
(* The filesystem is the environment.  A directory is a record             *)
(*   files    : names of the regular files directly inside it              *)
(*   subdirs  : names of the sub-directories directly inside it            *)
(*   size     : st_size of every regular file                              *)
(*   nolist   : iterdir() raises OSError                                   *)
(*   nostat   : files whose stat() raises OSError                          *)
(*   noread   : files whose open()/read raises OSError                     *)
(*   yaml     : what yaml.safe_load returns for metadata.yaml              *)
(*   bytes    : content of the two JSON artifacts                          *)
(* An error of the error list is a record [bundle, kind, names]: the       *)
(* bundle path, the message and the names the message lists.               *)
(***************************************************************************)
EXTENDS Integers, Sequences, FiniteSets, TLC

\* ---------------------------------------------------------------- bounds
MaxDirs == 2
NumContents == 2

\* ------------------------------------------------------- program constants
MAX_SIZE_BYTES == 2 * 1024 * 1024

REQUIRED_FILES == {"metadata.yaml", "workflow_api.json", "workflow_original.json"}

OPTIONAL_FILES == {"README.md", "preview.png"}

REQUIRED_META_FIELDS ==
  {"name", "version", "author", "description", "tags", "min_comfyui_version",
   "compatible_cindergrace_versions", "required_models", "recommended_vram_gb",
   "contains_non_manager_nodes", "non_manager_nodes_info", "hashes"}

REQUIRED_HASH_FIELDS == {"api_json", "original_json"}

\* ------------------------------------------------------------ name universe
\* File names a directory of the model may hold.
ModelsNames == {"a.models", "b.models"}

ExtraNames == {".models", "notes.txt"}

Names == REQUIRED_FILES \cup OPTIONAL_FILES \cup ModelsNames \cup ExtraNames

\* Path.suffix: the part of the final component from its last dot on; a
\* leading dot does not start a suffix, so ".models" has the suffix "".
Suffix(name) ==
  CASE name \in {"a.models", "b.models"} -> ".models"
    [] name = "metadata.yaml" -> ".yaml"
    [] name \in {"workflow_api.json", "workflow_original.json"} -> ".json"
    [] name = "README.md" -> ".md"
    [] name = "preview.png" -> ".png"
    [] name = "notes.txt" -> ".txt"
    [] OTHER -> ""

\* Python's str ordering (code points) on the names of the model, used by
\* sorted(...): '.' < 'A'..'Z' < '_' < 'a'..'z'.
StrOrder ==
  << ".models", "README.md", "a.models", "author", "b.models",
     "compatible_cindergrace_versions", "contains_non_manager_nodes",
     "description", "hashes", "metadata.yaml", "min_comfyui_version", "name",
     "non_manager_nodes_info", "notes.txt", "preview.png",
     "recommended_vram_gb", "required_models", "tags", "version",
     "workflow_api.json", "workflow_original.json" >>

StrRank(s) == CHOOSE i \in 1..Len(StrOrder) : StrOrder[i] = s

RECURSIVE sorted(_)
sorted(S) ==
  IF S = {} THEN << >>
  ELSE LET m == CHOOSE x \in S : \A y \in S : StrRank(x) <= StrRank(y)
       IN  <<m>> \o sorted(S \ {m})

\* hashlib.sha256(...).hexdigest() of a file content: distinct contents of
\* the model have distinct digests.
sha256_hex(content) == <<"hexdigest", content>>

Contents == 0..(NumContents - 1)

\* Values metadata can record under hashes.api_json / hashes.original_json:
\* the digest of some content, or something that is no digest (null).
NullValue == <<"null", 0>>

RecordedValues == {sha256_hex(c) : c \in Contents} \cup {NullValue}


\* ------------------------------------------------------------- YAML values
\* A parsed YAML value: t is its type ("malformed" when safe_load raises),
\* truthy is bool(value) for a scalar or a list, keys are the keys of a
\* mapping.  A top-level value also carries the value under its "hashes" key.
\* The empty dict {} as a value of the "hashes" key.
NoHashes ==
  [t |-> "map", truthy |-> FALSE, keys |-> {},
   api_json |-> NullValue, original_json |-> NullValue]

EmptyMap == [t |-> "map", truthy |-> FALSE, keys |-> {}, hashes |-> NoHashes]

\* bool(v): None, an empty mapping and falsy scalars / lists are false.
Truthy(v) ==
  CASE v.t = "null" -> FALSE
    [] v.t = "map" -> v.keys # {}
    [] OTHER -> v.truthy

\* dict.get(key): None when the key is absent.
Get(hashes, key) ==
  IF key \notin hashes.keys THEN NullValue
  ELSE IF key = "api_json" THEN hashes.api_json ELSE hashes.original_json

\* ------------------------------------------------------------------ errors
Err(bundle, kind, names) == [bundle |-> bundle, kind |-> kind, names |-> names]

\* Outcome of a call: the error list it leaves behind and whether it
\* returned or raised.
Return(errs) == [errors |-> errs, raised |-> FALSE]

Raise(errs) == [errors |-> errs, raised |-> TRUE]

\* load_metadata: read_text, safe_load, "or {}", isinstance check.
load_metadata(d) ==
  IF "metadata.yaml" \in d.noread
  THEN [ok |-> FALSE, exc |-> "OSError", data |-> EmptyMap]
  ELSE IF d.yaml.t = "malformed"
  THEN [ok |-> FALSE, exc |-> "YAMLError", data |-> EmptyMap]
  ELSE LET data == IF Truthy(d.yaml) THEN d.yaml ELSE EmptyMap
       IN  IF data.t # "map"
           THEN [ok |-> FALSE, exc |-> "metadata.yaml must be a mapping",
                 data |-> EmptyMap]
           ELSE [ok |-> TRUE, exc |-> "", data |-> data]

\* Iteration order of a Python set: the members of S in the order the
\* interpreter's string hashing (order) puts them.
SetIter(S, order) ==
  LET In(x) == x \in S IN SelectSeq(order, In)

\* HashCheck with the second comparison made only when the first matched.
HashCheck_Elif(bundle, d, hashes, errs) ==
  IF "workflow_api.json" \in d.noread \/ "workflow_original.json" \in d.noread
  THEN Raise(errs)
  ELSE IF sha256_hex(d.bytes["workflow_api.json"]) # Get(hashes, "api_json")
  THEN Return(Append(errs, Err(bundle, "api_json hash mismatch", << >>)))
  ELSE IF sha256_hex(d.bytes["workflow_original.json"]) # Get(hashes, "original_json")
  THEN Return(Append(errs, Err(bundle, "original_json hash mismatch", << >>)))
  ELSE Return(errs)

\* validate_bundle, lines 101-106: both digests are computed, then compared.
HashCheck(bundle, d, hashes, errs) ==
  IF "workflow_api.json" \in d.noread \/ "workflow_original.json" \in d.noread
  THEN Raise(errs)
  ELSE LET api_hash == sha256_hex(d.bytes["workflow_api.json"])
           original_hash == sha256_hex(d.bytes["workflow_original.json"])
           e1 == IF api_hash # Get(hashes, "api_json")
                 THEN Append(errs, Err(bundle, "api_json hash mismatch", << >>))
                 ELSE errs
           e2 == IF original_hash # Get(hashes, "original_json")
                 THEN Append(e1, Err(bundle, "original_json hash mismatch", << >>))
                 ELSE e1
       IN  Return(e2)

\* validate_bundle, lines 80-99: metadata parse, schema and hashes field.
MetaCheck(bundle, d, errs) ==
  LET loaded == load_metadata(d)
      meta == loaded.data
      missing_fields == REQUIRED_META_FIELDS \ meta.keys
      hashes == IF Truthy(meta.hashes) THEN meta.hashes ELSE NoHashes
  IN  IF ~loaded.ok
      THEN Return(Append(errs, Err(bundle, "invalid metadata.yaml", <<loaded.exc>>)))
      ELSE IF missing_fields # {}
      THEN Return(Append(errs, Err(bundle, "metadata missing fields",
                                   sorted(missing_fields))))
      ELSE IF hashes.t # "map"
      THEN Return(Append(errs, Err(bundle, "metadata hashes must be a mapping", << >>)))
      ELSE IF REQUIRED_HASH_FIELDS \ hashes.keys # {}
      THEN Return(Append(errs, Err(bundle,
                     "metadata hashes missing api_json/original_json", << >>)))
      ELSE HashCheck(bundle, d, hashes, errs)

\* SizeCheck with the cap itself rejected (>= for >).
RECURSIVE SizeCheck_Inclusive(_, _, _, _)
SizeCheck_Inclusive(bundle, d, todo, errs) ==
  IF todo = << >> THEN MetaCheck(bundle, d, errs)
  ELSE LET name == Head(todo)
       IN  IF name \in d.nostat THEN Raise(errs)
           ELSE SizeCheck_Inclusive(bundle, d, Tail(todo),
                  IF d.size[name] >= MAX_SIZE_BYTES
                  THEN Append(errs, Err(bundle, "exceeds 2 MB", <<name>>))
                  ELSE errs)

\* validate_bundle, lines 75-78: the size loop over the names still to visit.
RECURSIVE SizeCheck(_, _, _, _)
SizeCheck(bundle, d, todo, errs) ==
  IF todo = << >> THEN MetaCheck(bundle, d, errs)
  ELSE LET name == Head(todo)
       IN  IF name \in d.nostat THEN Raise(errs)
           ELSE SizeCheck(bundle, d, Tail(todo),
                  IF d.size[name] > MAX_SIZE_BYTES
                  THEN Append(errs, Err(bundle, "exceeds 2 MB", <<name>>))
                  ELSE errs)

\* UnknownCheck with the unknown-file error made fatal.
UnknownCheck_Fatal(bundle, d, order, models_files, errors) ==
  LET allowed == REQUIRED_FILES \cup OPTIONAL_FILES \cup models_files
      unknown == sorted(d.files \ allowed)
  IN  IF unknown # << >>
      THEN Return(Append(errors, Err(bundle, "unknown files present", unknown)))
      ELSE SizeCheck(bundle, d, SetIter(REQUIRED_FILES \cup models_files, order),
                     errors)

\* validate_bundle, lines 69-78: the unknown-file check, then the size loop
\* over REQUIRED_FILES | set(models_files).
UnknownCheck(bundle, d, order, models_files, errors) ==
  LET allowed == REQUIRED_FILES \cup OPTIONAL_FILES \cup models_files
      unknown == sorted(d.files \ allowed)
  IN  SizeCheck(bundle, d, SetIter(REQUIRED_FILES \cup models_files, order),
                IF unknown # << >>
                THEN Append(errors, Err(bundle, "unknown files present", unknown))
                ELSE errors)

\* ModelsCheck that accepts a bundle without a .models file (> 1 for != 1).
ModelsCheck_AtMostOne(bundle, d, order, errors) ==
  LET models_files == {p \in d.files : Suffix(p) = ".models"}
  IN  IF Cardinality(models_files) > 1
      THEN Return(Append(errors,
                    Err(bundle, "must contain exactly one .models file", << >>)))
      ELSE UnknownCheck(bundle, d, order, models_files, errors)

\* validate_bundle, lines 64-67: the .models count.
ModelsCheck(bundle, d, order, errors) ==
  LET models_files == {p \in d.files : Suffix(p) = ".models"}
  IN  IF Cardinality(models_files) # 1
      THEN Return(Append(errors,
                    Err(bundle, "must contain exactly one .models file", << >>)))
      ELSE UnknownCheck(bundle, d, order, models_files, errors)

\* validate_bundle without the return after the missing-files error.
validate_bundle_NoAbort(bundle, d, order, errors) ==
  IF d.nolist THEN Raise(errors)
  ELSE LET files == d.files
           missing == REQUIRED_FILES \ files
       IN  ModelsCheck(bundle, d, order,
             IF missing # {}
             THEN Append(errors, Err(bundle, "missing files", sorted(missing)))
             ELSE errors)

\* validate_bundle(bundle_dir, errors): the error list after the call, and
\* whether the call raised.
validate_bundle(bundle, d, order, errors) ==
  IF d.nolist THEN Raise(errors)
  ELSE LET files == d.files
           missing == REQUIRED_FILES \ files
       IN  IF missing # {}
           THEN Return(Append(errors, Err(bundle, "missing files", sorted(missing))))
           ELSE ModelsCheck(bundle, d, order, errors)

\* ------------------------------------------------- directories of the model
Dir(files, subdirs, over, nolist, nostat, noread, yaml, api, orig) ==
  [files |-> files, subdirs |-> subdirs,
   size |-> [f \in files |-> IF f \in over THEN MAX_SIZE_BYTES + 1
                                           ELSE MAX_SIZE_BYTES],
   nolist |-> nolist, nostat |-> nostat, noread |-> noread, yaml |-> yaml,
   bytes |-> [f \in {"workflow_api.json", "workflow_original.json"} |->
                IF f = "workflow_api.json" THEN api ELSE orig]]

HashesMap(keys, ra, ro) ==
  [t |-> "map", truthy |-> keys # {}, keys |-> keys,
   api_json |-> ra, original_json |-> ro]

HashesOther(t, truthy) ==
  [t |-> t, truthy |-> truthy, keys |-> {},
   api_json |-> NullValue, original_json |-> NullValue]

YamlMap(keys, hashes) ==
  [t |-> "map", truthy |-> keys # {}, keys |-> keys, hashes |-> hashes]

YamlOther(t, truthy) ==
  [t |-> t, truthy |-> truthy, keys |-> {}, hashes |-> NoHashes]

\* metadata.yaml with all twelve keys and both hashes recorded as ra, ro.
FullYaml(ra, ro) ==
  YamlMap(REQUIRED_META_FIELDS, HashesMap(REQUIRED_HASH_FIELDS, ra, ro))

GoodYaml == FullYaml(sha256_hex(0), sha256_hex(0))

\* Top-level values that are not a full mapping.
BadYamls ==
  {YamlOther("malformed", FALSE), YamlOther("null", FALSE),
   YamlOther("scalar", FALSE), YamlOther("scalar", TRUE),
   YamlOther("list", FALSE), YamlOther("list", TRUE)}
  \cup {YamlMap(k, HashesMap(REQUIRED_HASH_FIELDS, sha256_hex(0), sha256_hex(0))) :
          k \in {{}, REQUIRED_META_FIELDS \ {"hashes"},
                 REQUIRED_META_FIELDS \ {"name", "tags"}}}

\* Full mappings whose "hashes" value is not a mapping with both keys.
BadHashesYamls ==
  {YamlMap(REQUIRED_META_FIELDS, h) :
     h \in {HashesOther("null", FALSE), HashesOther("scalar", FALSE),
            HashesOther("scalar", TRUE), HashesOther("list", TRUE)}
           \cup {HashesMap(k, sha256_hex(0), sha256_hex(0)) :
                   k \in {{}, {"api_json"}, {"original_json"}}}}

\* Listings that pass the required-file and the .models-count check.
PassingFiles ==
  {REQUIRED_FILES \cup {m} \cup x :
     m \in ModelsNames, x \in SUBSET ({"README.md"} \cup ExtraNames)}

\* Every listing, with the rest of the directory well-formed.
ListingDirs ==
  {Dir(f, s, {}, nl, {}, {}, GoodYaml, 0, 0) :
     f \in SUBSET Names, s \in {{}, {"metadata.yaml"}}, nl \in BOOLEAN}

\* Directories that reach the size and metadata checks and stop there.
MetaDirs ==
  {Dir(f, {}, o \cap f, FALSE, {}, {}, y, 0, 0) :
     f \in PassingFiles, o \in SUBSET (REQUIRED_FILES \cup ModelsNames),
     y \in BadYamls \cup BadHashesYamls}

\* Directories that reach hash verification.
HashedDirs ==
  {Dir(f, {}, o \cap f, FALSE, {}, {}, FullYaml(r[1], r[2]), c[1], c[2]) :
     f \in PassingFiles, o \in SUBSET (REQUIRED_FILES \cup ModelsNames),
     r \in RecordedValues \X RecordedValues, c \in Contents \X Contents}

\* Directories with an I/O fault on a stat or a read.
FaultDirs ==
  {Dir(f, {}, o \cap f, FALSE, {"workflow_api.json"}, {}, GoodYaml, 0, 0) :
     f \in PassingFiles, o \in SUBSET (REQUIRED_FILES \cup ModelsNames)}
  \cup
  {Dir(f, {}, {}, FALSE, {}, {n}, FullYaml(r[1], r[2]), 0, 0) :
     f \in PassingFiles, n \in REQUIRED_FILES,
     r \in RecordedValues \X RecordedValues}

AllDirs == {d \in ListingDirs : d.subdirs \cap d.files = {}}
           \cup MetaDirs \cup HashedDirs \cup FaultDirs


\* A handful of directories for runs over several bundles: one of each
\* outcome of validate_bundle (no error, one fatal error, several errors,
\* an I/O fault), and one directory that is no bundle.
GoodDir == Dir(REQUIRED_FILES \cup {"a.models"}, {}, {}, FALSE, {}, {}, GoodYaml, 0, 0)

SampleDirs ==
  {GoodDir,
   Dir({"README.md"}, {}, {}, FALSE, {}, {}, GoodYaml, 0, 0),
   Dir({"metadata.yaml", "a.models"}, {}, {}, FALSE, {}, {}, GoodYaml, 0, 0),
   Dir(REQUIRED_FILES \cup ModelsNames, {}, {}, FALSE, {}, {}, GoodYaml, 0, 0),
   Dir(REQUIRED_FILES \cup {"a.models", "notes.txt"}, {},
       {"workflow_api.json", "a.models"}, FALSE, {}, {},
       FullYaml(sha256_hex(1), NullValue), 0, 0),
   Dir(REQUIRED_FILES \cup {"b.models"}, {}, {"metadata.yaml"}, FALSE, {}, {},
       YamlOther("list", TRUE), 0, 0),
   Dir(REQUIRED_FILES \cup {"a.models"}, {}, {}, FALSE, {}, {"metadata.yaml"},
       GoodYaml, 0, 0),
   Dir(REQUIRED_FILES \cup {"a.models"}, {}, {"metadata.yaml"}, FALSE, {},
       {"workflow_original.json"}, GoodYaml, 0, 0)}

\* ------------------------------------------------------------------- state
VARIABLES
  rootKind,   \* what --root resolves to: "missing", "file" or "dir"
  dirs,       \* the directories beneath the root, by path (1 < 2 < ...)
  scanOrder,  \* the order in which rglob("*") yields those directories
  iterOrder,  \* the iteration order of a set of file names in this process
  pc,         \* position of main: "start", "loop", "exit", "crashed"
  bundles,    \* main's list bundles
  idx,        \* index of the for loop over bundles
  errors,     \* main's list errors
  visits,     \* number of validate_bundle calls made for each directory
  printed,    \* first line printed
  report,     \* errors printed beneath "VALIDATION FAILED:"
  exitCode    \* value main returned, -1 while it has not returned

vars == <<rootKind, dirs, scanOrder, iterOrder, pc, bundles, idx, errors,
          visits, printed, report, exitCode>>

RootKinds == {"missing", "file", "dir"}

Perms(n) == {s \in [1..n -> 1..n] : \A i, j \in 1..n : s[i] = s[j] => i = j}

\* Two of the orders string hashing can give the sized file names.
HashOrders ==
  { << "metadata.yaml", "workflow_api.json", "workflow_original.json",
       "a.models", "b.models" >>,
    << "b.models", "a.models", "workflow_original.json", "workflow_api.json",
       "metadata.yaml" >> }

\* (p / "metadata.yaml").exists(): a file or a directory of that name.
HasMetadata(d) == "metadata.yaml" \in d.files \cup d.subdirs

\* The list comprehension of line 120: rglob's order, filtered.
Discover ==
  LET IsBundle(i) == HasMetadata(dirs[i])
  IN  IF rootKind = "dir" THEN SelectSeq(scanOrder, IsBundle) ELSE << >>

Start(rk, ds, so, io) ==
  /\ rootKind = rk
  /\ dirs = ds
  /\ scanOrder = so
  /\ iterOrder = io
  /\ pc = "start"
  /\ bundles = << >>
  /\ idx = 1
  /\ errors = << >>
  /\ visits = [i \in DOMAIN ds |-> 0]
  /\ printed = ""
  /\ report = << >>
  /\ exitCode = -1

\* Runs over up to MaxDirs directories drawn from SampleDirs.
Init ==
  \E rk \in RootKinds, n \in 0..MaxDirs, io \in HashOrders :
    \E ds \in [1..n -> SampleDirs], so \in Perms(n) :
      /\ rk # "dir" => n = 0
      /\ Start(rk, ds, so, io)

\* Runs over one directory drawn from AllDirs.
InitBundle ==
  \E rk \in RootKinds, io \in HashOrders :
    \/ rk # "dir" /\ Start(rk, << >>, << >>, io)
    \/ rk = "dir" /\ \E d \in AllDirs : Start(rk, <<d>>, <<1>>, io)

\* ------------------------------------------------------------------ actions
\* main, lines 115-117.
MainRootMissing ==
  /\ pc = "start"
  /\ rootKind = "missing"
  /\ printed' = "ERROR: workflows root not found"
  /\ exitCode' = 1
  /\ pc' = "exit"
  /\ UNCHANGED <<rootKind, dirs, scanOrder, iterOrder, bundles, idx, errors,
                 visits, report>>

\* MainNoBundles that treats an empty scan as a failure.
MainNoBundles_Fails ==
  /\ pc = "start"
  /\ rootKind # "missing"
  /\ Discover = << >>
  /\ printed' = "WARNING: No workflow bundles found (metadata.yaml missing)"
  /\ exitCode' = 1
  /\ pc' = "exit"
  /\ UNCHANGED <<rootKind, dirs, scanOrder, iterOrder, bundles, idx, errors,
                 visits, report>>

\* main, lines 119-123.
MainNoBundles ==
  /\ pc = "start"
  /\ rootKind # "missing"
  /\ Discover = << >>
  /\ printed' = "WARNING: No workflow bundles found (metadata.yaml missing)"
  /\ exitCode' = 0
  /\ pc' = "exit"
  /\ UNCHANGED <<rootKind, dirs, scanOrder, iterOrder, bundles, idx, errors,
                 visits, report>>

\* main, lines 119-121 when bundles is not empty.
MainDiscover ==
  /\ pc = "start"
  /\ rootKind # "missing"
  /\ Discover # << >>
  /\ bundles' = Discover
  /\ idx' = 1
  /\ pc' = "loop"
  /\ UNCHANGED <<rootKind, dirs, scanOrder, iterOrder, errors, visits,
                 printed, report, exitCode>>

\* MainValidate that leaves the loop at the first bundle with an error.
MainValidate_FailFast ==
  /\ pc = "loop"
  /\ idx <= Len(bundles)
  /\ LET b == bundles[idx]
         r == validate_bundle(b, dirs[b], iterOrder, errors)
     IN  /\ ~r.raised
         /\ errors' = r.errors
         /\ visits' = [visits EXCEPT ![b] = @ + 1]
         /\ idx' = IF r.errors # << >> THEN Len(bundles) + 1 ELSE idx + 1
  /\ UNCHANGED <<rootKind, dirs, scanOrder, iterOrder, pc, bundles, printed,
                 report, exitCode>>

\* main, lines 125-126: one iteration whose validate_bundle call returns.
MainValidate ==
  /\ pc = "loop"
  /\ idx <= Len(bundles)
  /\ LET b == bundles[idx]
         r == validate_bundle(b, dirs[b], iterOrder, errors)
     IN  /\ ~r.raised
         /\ errors' = r.errors
         /\ visits' = [visits EXCEPT ![b] = @ + 1]
  /\ idx' = idx + 1
  /\ UNCHANGED <<rootKind, dirs, scanOrder, iterOrder, pc, bundles, printed,
                 report, exitCode>>

\* main, lines 125-126: one iteration whose validate_bundle call raises; the
\* exception leaves main and ends the process with a traceback.
MainValidateRaises ==
  /\ pc = "loop"
  /\ idx <= Len(bundles)
  /\ LET b == bundles[idx]
         r == validate_bundle(b, dirs[b], iterOrder, errors)
     IN  /\ r.raised
         /\ errors' = r.errors
         /\ visits' = [visits EXCEPT ![b] = @ + 1]
  /\ pc' = "crashed"
  /\ UNCHANGED <<rootKind, dirs, scanOrder, iterOrder, bundles, idx, printed,
                 report, exitCode>>

\* main, lines 128-132.
MainReportFailed ==
  /\ pc = "loop"
  /\ idx > Len(bundles)
  /\ errors # << >>
  /\ printed' = "VALIDATION FAILED:"
  /\ report' = errors
  /\ exitCode' = 1
  /\ pc' = "exit"
  /\ UNCHANGED <<rootKind, dirs, scanOrder, iterOrder, bundles, idx, errors,
                 visits>>

\* main, lines 134-135.
MainReportOK ==
  /\ pc = "loop"
  /\ idx > Len(bundles)
  /\ errors = << >>
  /\ printed' = "Validation OK"
  /\ exitCode' = 0
  /\ pc' = "exit"
  /\ UNCHANGED <<rootKind, dirs, scanOrder, iterOrder, bundles, idx, errors,
                 visits, report>>

Next ==
  \/ MainRootMissing
  \/ MainNoBundles
  \/ MainDiscover
  \/ MainValidate
  \/ MainValidateRaises
  \/ MainReportFailed
  \/ MainReportOK

Spec == Init /\ [][Next]_vars

SpecBundle == InitBundle /\ [][Next]_vars


\* ------------------------------------------------- vocabulary of the claims
ThreeRequired == {"metadata.yaml", "workflow_api.json", "workflow_original.json"}

TwelveKeys ==
  {"name", "version", "author", "description", "tags", "min_comfyui_version",
   "compatible_cindergrace_versions", "required_models", "recommended_vram_gb",
   "contains_non_manager_nodes", "non_manager_nodes_info", "hashes"}

TwoMiB == 2097152

Elems(seq) == {seq[i] : i \in DOMAIN seq}

\* The entries of the error list that belong to bundle b, in list order.
ErrorsOf(b) ==
  LET Mine(e) == e.bundle = b IN SelectSeq(errors, Mine)

Kinds(b) == {e.kind : e \in Elems(ErrorsOf(b))}

\* validate_bundle was called for b and returned.
Returned(b) == \E i \in 1..Len(bundles) : i < idx /\ bundles[i] = b

\* The .models files of a directory.
DotModels(d) == d.files \cap {"a.models", "b.models"}

AllowList(d) == ThreeRequired \cup {"README.md", "preview.png"} \cup DotModels(d)

Extras(d) == d.files \ AllowList(d)

PassesFileChecks(d) ==
  /\ ~d.nolist
  /\ ThreeRequired \subseteq d.files
  /\ Cardinality(DotModels(d)) = 1

\* The sized files can all be stat'ed.
Statable(d) == d.nostat \cap (ThreeRequired \cup DotModels(d)) = {}

ReachesMetadata(d) == PassesFileChecks(d) /\ Statable(d)

ReachesHashes(d) ==
  /\ ReachesMetadata(d)
  /\ "metadata.yaml" \notin d.noread
  /\ d.yaml.t = "map"
  /\ TwelveKeys \subseteq d.yaml.keys
  /\ d.yaml.hashes.t = "map"
  /\ {"api_json", "original_json"} \subseteq d.yaml.hashes.keys
  /\ d.noread = {}

ApiMatches(d) == d.yaml.hashes.api_json = sha256_hex(d.bytes["workflow_api.json"])

OriginalMatches(d) ==
  d.yaml.hashes.original_json = sha256_hex(d.bytes["workflow_original.json"])

WellFormedBundle(d) ==
  /\ ReachesHashes(d)
  /\ Extras(d) = {}
  /\ \A f \in ThreeRequired \cup DotModels(d) : d.size[f] <= TwoMiB

CleanBundle(d) == WellFormedBundle(d) /\ ApiMatches(d) /\ OriginalMatches(d)

IsBundleDir(d) == "metadata.yaml" \in d.files \cup d.subdirs

\* The directory d without its files outside the allow-list.
WithoutExtras(d) ==
  [d EXCEPT !.files = d.files \cap AllowList(d),
            !.size = [f \in d.files \cap AllowList(d) |-> d.size[f]]]

\* Runs over a directory that has files outside the allow-list (or the
\* well-formed GoodDir, which has none) and, as the second directory, the
\* same directory without them.
InitTwin ==
  \E rk \in RootKinds, io \in HashOrders :
    \/ rk # "dir" /\ Start(rk, << >>, << >>, io)
    \/ rk = "dir" /\ \E d \in AllDirs, so \in Perms(2) :
         /\ PassesFileChecks(d)
         /\ Extras(d) # {} \/ d = GoodDir
         /\ Start(rk, <<d, WithoutExtras(d)>>, so, io)

SpecTwin == InitTwin /\ [][Next]_vars

\* C1: when main returns, the exit code is 1 if the root does not exist
\* (and then nothing was discovered or validated) or if some discovered
\* bundle fails a check, and 0 otherwise; with an existing root and no bundle
\* directory the run prints the warning, prints no error list and exits 0.
C1_ExitCode ==
  pc = "exit" =>
    /\ exitCode =
         IF \/ rootKind = "missing"
            \/ \E i \in DOMAIN dirs : IsBundleDir(dirs[i]) /\ ~CleanBundle(dirs[i])
         THEN 1 ELSE 0
    /\ rootKind = "missing" =>
         /\ bundles = << >>
         /\ \A i \in DOMAIN dirs : visits[i] = 0
         /\ errors = << >>
    /\ (rootKind # "missing" /\ \A i \in DOMAIN dirs : ~IsBundleDir(dirs[i])) =>
         /\ exitCode = 0
         /\ printed = "WARNING: No workflow bundles found (metadata.yaml missing)"
         /\ report = << >>

C1_Witness ==
  /\ pc = "exit"
  /\ exitCode = 1
  /\ Len(bundles) = 2
  /\ CleanBundle(dirs[bundles[1]])
  /\ ~CleanBundle(dirs[bundles[2]])

\* C2: a bundle that lacks required files gets exactly one error, which
\* names exactly the missing required files, and no other error.
C2_MissingFiles ==
  \A b \in DOMAIN dirs :
    (Returned(b) /\ ~(ThreeRequired \subseteq dirs[b].files)) =>
      /\ Len(ErrorsOf(b)) = 1
      /\ ErrorsOf(b)[1].kind = "missing files"
      /\ Elems(ErrorsOf(b)[1].names) = ThreeRequired \ dirs[b].files
      /\ Len(ErrorsOf(b)[1].names) = Cardinality(ThreeRequired \ dirs[b].files)

C2_Witness ==
  \E b \in DOMAIN dirs :
    /\ Returned(b)
    /\ ThreeRequired \ dirs[b].files = {"workflow_api.json", "workflow_original.json"}
    /\ DotModels(dirs[b]) = {}
    /\ "notes.txt" \in dirs[b].files
    /\ Len(ErrorsOf(b)) = 1

\* C3: a bundle with the three required files whose number of .models files
\* is not one gets exactly one error, "must contain exactly one .models
\* file", and none of the later checks' errors.
C3_ModelsCount ==
  \A b \in DOMAIN dirs :
    (/\ Returned(b)
     /\ ThreeRequired \subseteq dirs[b].files
     /\ Cardinality(DotModels(dirs[b])) # 1) =>
      /\ Len(ErrorsOf(b)) = 1
      /\ ErrorsOf(b)[1].kind = "must contain exactly one .models file"

C3_Witness ==
  \E b \in DOMAIN dirs :
    /\ Returned(b)
    /\ ThreeRequired \subseteq dirs[b].files
    /\ Cardinality(DotModels(dirs[b])) = 2
    /\ "notes.txt" \in dirs[b].files
    /\ Kinds(b) = {"must contain exactly one .models file"}


\* The errors of bundle b as bundle c would carry them.
Retag(errs, c) == [i \in DOMAIN errs |-> [errs[i] EXCEPT !.bundle = c]]

\* C4: a bundle that passes the required-file and .models-count checks and
\* has files outside the allow-list gets exactly one unknown-file error
\* listing those files, followed by exactly the errors the same bundle
\* without those files gets from the size, metadata and hash checks.
C4_UnknownNonFatal ==
  (/\ DOMAIN dirs = {1, 2}
   /\ Returned(1) /\ Returned(2)
   /\ PassesFileChecks(dirs[1])
   /\ Extras(dirs[1]) # {}
   /\ dirs[2] = WithoutExtras(dirs[1])) =>
     /\ Len(ErrorsOf(1)) >= 1
     /\ ErrorsOf(1)[1].kind = "unknown files present"
     /\ Elems(ErrorsOf(1)[1].names) = Extras(dirs[1])
     /\ Len(ErrorsOf(1)[1].names) = Cardinality(Extras(dirs[1]))
     /\ Tail(ErrorsOf(1)) = Retag(ErrorsOf(2), 1)
     /\ "unknown files present" \notin Kinds(2)

C4_Witness ==
  /\ DOMAIN dirs = {1, 2}
  /\ Returned(1) /\ Returned(2)
  /\ dirs[2] = WithoutExtras(dirs[1])
  /\ Extras(dirs[1]) = {"notes.txt"}
  /\ Kinds(1) = {"unknown files present", "exceeds 2 MB", "api_json hash mismatch"}
  /\ Kinds(2) = {"exceeds 2 MB", "api_json hash mismatch"}

\* C5: for a bundle that reaches hash verification, the api_json mismatch
\* error is there exactly when the digest of workflow_api.json differs from
\* the recorded api_json, the original_json mismatch error exactly when the
\* digest of workflow_original.json differs from the recorded original_json,
\* each at most once, whatever the other comparison gave.
C5_HashesIndependent ==
  \A b \in DOMAIN dirs :
    (Returned(b) /\ ReachesHashes(dirs[b])) =>
      LET IsApi(e) == e.kind = "api_json hash mismatch"
          IsOriginal(e) == e.kind = "original_json hash mismatch"
      IN  /\ Len(SelectSeq(ErrorsOf(b), IsApi)) =
               IF ApiMatches(dirs[b]) THEN 0 ELSE 1
          /\ Len(SelectSeq(ErrorsOf(b), IsOriginal)) =
               IF OriginalMatches(dirs[b]) THEN 0 ELSE 1

C5_Witness ==
  \E b \in DOMAIN dirs :
    /\ Returned(b)
    /\ ReachesHashes(dirs[b])
    /\ ~ApiMatches(dirs[b])
    /\ ~OriginalMatches(dirs[b])
    /\ dirs[b].bytes["workflow_api.json"] # dirs[b].bytes["workflow_original.json"]
    /\ {"api_json hash mismatch", "original_json hash mismatch"} \subseteq Kinds(b)

\* C6: a well-formed bundle whose recorded hashes are the digests of the two
\* JSON artifacts gets no error.
C6_CleanBundle ==
  \A b \in DOMAIN dirs :
    (Returned(b) /\ CleanBundle(dirs[b])) => ErrorsOf(b) = << >>

C6_Witness ==
  \E b \in DOMAIN dirs :
    /\ Returned(b)
    /\ CleanBundle(dirs[b])
    /\ {"README.md", "preview.png"} \subseteq dirs[b].files
    /\ pc = "exit"
    /\ printed = "Validation OK"

\* Position of a check in validate_bundle.
CheckRank(kind) ==
  CASE kind = "missing files" -> 1
    [] kind = "must contain exactly one .models file" -> 2
    [] kind = "unknown files present" -> 3
    [] kind = "exceeds 2 MB" -> 4
    [] kind = "invalid metadata.yaml" -> 5
    [] kind = "metadata missing fields" -> 6
    [] kind = "metadata hashes must be a mapping" -> 7
    [] kind = "metadata hashes missing api_json/original_json" -> 7
    [] kind = "api_json hash mismatch" -> 8
    [] kind = "original_json hash mismatch" -> 9
    [] OTHER -> 0

PosInBundles(b) == CHOOSE i \in 1..Len(bundles) : bundles[i] = b

IsPrefix(s, t) == Len(s) <= Len(t) /\ \A i \in 1..Len(s) : s[i] = t[i]

\* The error list is grouped by bundle in discovery order, and a bundle's
\* errors are in check order.
ErrorsInOrder ==
  \A p, q \in 1..Len(errors) :
    p < q =>
      /\ errors[p].bundle \in Elems(bundles)
      /\ errors[q].bundle \in Elems(bundles)
      /\ PosInBundles(errors[p].bundle) <= PosInBundles(errors[q].bundle)
      /\ errors[p].bundle = errors[q].bundle =>
           CheckRank(errors[p].kind) <= CheckRank(errors[q].kind)

\* No bundle is validated twice, and a run that reaches its report has
\* validated every discovered bundle once, whatever errors it found.
ValidatedOnce ==
  /\ \A i \in DOMAIN dirs : visits[i] <= 1
  /\ \A i, j \in 1..Len(bundles) : bundles[i] = bundles[j] => i = j
  /\ (pc = "exit" /\ printed \in {"VALIDATION FAILED:", "Validation OK"}) =>
       \A i \in DOMAIN dirs :
         visits[i] = IF IsBundleDir(dirs[i]) THEN 1 ELSE 0

\* C7: there is no fail-fast across bundles: every discovered bundle is
\* validated exactly once whatever the earlier bundles' errors, the error
\* list is the bundles' errors in discovery order and, within a bundle, in
\* check order, and a step only appends to the list.
C7_NoFailFast ==
  /\ [](ValidatedOnce /\ ErrorsInOrder)
  /\ [][IsPrefix(errors, errors')]_vars

C7_Witness ==
  /\ pc = "exit"
  /\ Len(bundles) = 2
  /\ Kinds(bundles[1]) = {"missing files"}
  /\ Cardinality(Kinds(bundles[2])) >= 4
  /\ report = errors

\* C8: the bundles are discovered, validated and reported in path order,
\* whatever order the traversal yields the directories in.
C8_SortedDiscovery ==
  \A i, j \in 1..Len(bundles) : i < j => bundles[i] < bundles[j]

\* C9: a bundle that reaches the metadata parse with a metadata.yaml that is
\* malformed or whose top-level value is no mapping (a list, a scalar, null)
\* gets an "invalid metadata" error and no missing-fields, hashes-field or
\* hash-mismatch error.
C9_InvalidMetadata ==
  \A b \in DOMAIN dirs :
    (/\ Returned(b)
     /\ ReachesMetadata(dirs[b])
     /\ "metadata.yaml" \notin dirs[b].noread
     /\ dirs[b].yaml.t # "map") =>
      /\ "invalid metadata.yaml" \in Kinds(b)
      /\ Kinds(b) \cap {"metadata missing fields",
                        "metadata hashes must be a mapping",
                        "metadata hashes missing api_json/original_json",
                        "api_json hash mismatch",
                        "original_json hash mismatch"} = {}

\* The I/O operation validate_bundle performs on d that fails first, if any.
HitsIOError(d) ==
  \/ d.nolist
  \/ PassesFileChecks(d) /\ ~Statable(d)
  \/ ReachesMetadata(d) /\ "metadata.yaml" \in d.noread
  \/ ReachesMetadata(d) /\ "metadata.yaml" \notin d.noread
       /\ d.yaml.t = "map" /\ TwelveKeys \subseteq d.yaml.keys
       /\ d.yaml.hashes.t = "map"
       /\ {"api_json", "original_json"} \subseteq d.yaml.hashes.keys
       /\ d.noread # {}

\* C10: an I/O error raised while a bundle is validated ends the run: it
\* adds no entry to the error list and the run does not go on.
C10_IOErrorsPropagate ==
  \A b \in DOMAIN dirs :
    (visits[b] > 0 /\ HitsIOError(dirs[b])) =>
      /\ pc = "crashed"
      /\ "invalid metadata.yaml" \notin Kinds(b)

====
